---- MODULE Spec2Model ----
(***************************************************************************)
(* State-machine model of glide-core's dedicated connection pool           *)
(* (connection_pool.rs), script cache (scripts_container.rs) and cluster   *)
(* scan cursor registry (cluster_scan_container.rs).                       *)
(*                                                                         *)
(* Every pool operation except register_node takes dedicated_sets.write()  *)
(* as its first step and keeps the guard until it returns, so the          *)
(* operations are mutually exclusive and each is one action here.          *)
(* register_node only takes clients.write(), which get_connection holds    *)
(* for reading from its first use of the registry to its return, so it is  *)
(* one action as well.  acquire_dedicated draws its handle from the static *)
(* COUNTER before it waits for the lock and is therefore two steps.        *)
(*                                                                         *)
(* Client::send_command_dedicated (client/failover_integration.rs) is a    *)
(* sequence of such operations and server round trips, one step each.      *)
(* SpecLock does not take the mutual exclusion of get_connection for       *)
(* granted: there the call is one step per await and the guards are state. *)
(***************************************************************************)
EXTENDS Integers, Sequences, FiniteSets, TLC

(***************************************************************************)
(* Bounds                                                                  *)
(***************************************************************************)
MaxHandles == 2
MaxConns == 2
MaxInUse == 1
MaxAdds == 2
MaxReuseHandles == 3
MaxClientHandles == 1
MaxLockHandles == 1
MaxTasks == 2
MaxOrderConns == 1
MaxChTasks == 3
MaxHyTasks == 3

Nodes == {"node1", "node2"}
HandleBounds == {MaxHandles, MaxReuseHandles, MaxClientHandles, MaxLockHandles}
HandleIds == 0 .. (CHOOSE m \in HandleBounds : \A k \in HandleBounds : m >= k) - 1
Tasks == 1 .. MaxTasks
ConnIds == 1 .. MaxConns

VARIABLES
    COUNTER,          \* static AtomicU64 of ConnectionHandle::new
    minted,           \* handles drawn by acquire_dedicated calls still waiting for the lock
    foreign,          \* handles drawn from COUNTER by other ConnectionPool values of the process
    dedicated_sets,   \* handle -> (node id -> ManagedConnection)
    pools,            \* node id -> NodeConnectionPool
    clients,          \* node ids with a registered RedisClient
    opened,           \* number of connections the client factories have produced
    issued,           \* history: handle -> number of times acquire_dedicated returned it
    released,         \* history: issued handles passed to release_dedicated
    marked,           \* history: connections marked by mark_connection_unhealthy
    failedOver,       \* history: connections to a node that existed when it failed over
                      \* (both without the connections that have been dropped: a
                      \* dropped connection is in no map and no free list, and the
                      \* factory results are numbered by the ever growing "opened")
    removedNodes,     \* history: nodes dropped by a topology change and not registered since
    last,             \* history: the call made by the last step and its result
    CONTAINER,        \* scripts_container: digest -> ScriptEntry
    adds,             \* history: add_script calls per digest since the entry was created
    removes,          \* history: remove_script calls per digest since the entry was created
    probe,            \* history: an add_script call followed up to its remove_script
    scriptLast,       \* history: the script cache call of the last step and its result
    SCAN,             \* cluster_scan_container: token -> scan state
    owner,            \* history: token -> cursor of the insert that made it live
    clobbered,        \* history: live tokens that a later insert returned again
    scanLast,         \* history: the registry call of the last step and its result
    cmd,              \* a send_command_dedicated call: its position, locals and history
    tasks,            \* task -> its get_connection call: position, locals and history
    locks,            \* who holds the guards of dedicated_sets, clients and pools
    ops,              \* task -> the other pool operation it is in: call, arguments, guards held
    chQueue,          \* ChannelRwLock: the LockRequests in the manager's mpsc channel
    chTasks,          \* ChannelRwLock: task -> where it stands with its request and guard
    hyQueue,          \* HybridRwLock: the waiters of the inner tokio RwLock, in order
    hyTasks           \* HybridRwLock: task -> where it stands with its call and guard

poolVars == <<COUNTER, minted, foreign, dedicated_sets, pools, clients, opened>>
poolHist == <<issued, released, marked, failedOver, removedNodes, last>>
scriptVars == <<CONTAINER, adds, removes, probe, scriptLast>>
scanVars == <<SCAN, owner, clobbered, scanLast>>
clientVars == <<cmd>>
lockVars == <<tasks, locks>>
orderVars == <<ops>>
channelVars == <<chQueue, chTasks>>
hybridVars == <<hyQueue, hyTasks>>
rwVars == <<channelVars, hybridVars>>
vars ==
    <<poolVars, poolHist, scriptVars, scanVars, clientVars, lockVars, orderVars, rwVars>>

(***************************************************************************)
(* HashMap helpers                                                         *)
(***************************************************************************)
MapInsert(f, k, v) == [x \in DOMAIN f \cup {k} |-> IF x = k THEN v ELSE f[x]]
MapRemove(f, k) == [x \in DOMAIN f \ {k} |-> f[x]]
MapRetainInverted(f, K) == [x \in DOMAIN f \ K |-> f[x]]
MapRetain(f, K) == [x \in DOMAIN f \cap K |-> f[x]]
Range(s) == {s[i] : i \in DOMAIN s}

(***************************************************************************)
(* ConnectionHandle, ManagedConnection, NodeConnectionPool                 *)
(***************************************************************************)
\* COUNTER.fetch_add(1): the new counter value.  The AtomicU64 wraps at 2^64,
\* beyond TLC's integers and never reached below MaxHandles.
FetchAddStuck(c) == c
FetchAdd(c) == c + 1

ManagedConnection_new(conn, node_id) ==
    [conn |-> conn, node_id |-> node_id, is_healthy |-> TRUE]

mark_toggle(m) == [m EXCEPT !.is_healthy = ~@]
mark_unhealthy(m) == [m EXCEPT !.is_healthy = FALSE]

NodeConnectionPool_new == [available |-> <<>>, in_use |-> 0]

NoManaged == [conn |-> 0, node_id |-> "-", is_healthy |-> FALSE]

PoolReusableAny(m) == TRUE
PoolReusable(m) == m.is_healthy

PopHealthyFifo(available) ==
    IF available = <<>>
    THEN [found |-> FALSE, managed |-> NoManaged, rest |-> <<>>]
    ELSE [found |-> TRUE, managed |-> Head(available), rest |-> Tail(available)]

\* the while-let loop of acquire: pop from the tail until a healthy one shows up
RECURSIVE PopHealthy(_)
PopHealthy(available) ==
    IF available = <<>>
    THEN [found |-> FALSE, managed |-> NoManaged, rest |-> <<>>]
    ELSE LET managed == available[Len(available)]
             rest == SubSeq(available, 1, Len(available) - 1)
         IN IF PoolReusable(managed)
            THEN [found |-> TRUE, managed |-> managed, rest |-> rest]
            ELSE PopHealthy(rest)

\* NodeConnectionPool::acquire.  factory is the outcome of
\* get_multiplexed_async_connection: "ok", "err", or "cancel" when the caller's
\* future is dropped while the factory call is pending.
acquire(pool, node_id, factory, fresh) ==
    LET p == PopHealthy(pool.available)
    IN IF p.found
       THEN [pool |-> [available |-> p.rest, in_use |-> pool.in_use + 1],
             ok |-> TRUE, managed |-> p.managed, factoryCalled |-> FALSE]
       ELSE [pool |-> [available |-> <<>>, in_use |-> pool.in_use + 1],
             ok |-> factory = "ok",
             managed |-> IF factory = "ok"
                         THEN ManagedConnection_new(fresh, node_id)
                         ELSE NoManaged,
             factoryCalled |-> TRUE]

SaturatingSub(a, b) == IF a >= b THEN a - b ELSE 0

ReleasePushesAny(conn) == TRUE
ReleasePushes(conn) == conn.is_healthy

\* NodeConnectionPool::release
release(pool, conn) ==
    [available |-> IF ReleasePushes(conn) THEN Append(pool.available, conn)
                   ELSE pool.available,
     in_use |-> SaturatingSub(pool.in_use, 1)]

(***************************************************************************)
(* ConnectionPool                                                          *)
(***************************************************************************)
\* res is "ok" or the error message; conn is the connection returned (0: none);
\* replaced is the connection of the entry a get_connection replaced (0: none)
\* and stale tells which histories that connection was in; popped is the
\* length of the free list a get_connection took its connection from (0: none)
Call(op, handle, node, res, conn, factoryCalled) ==
    [op |-> op, handle |-> handle, node |-> node, res |-> res, conn |-> conn,
     factoryCalled |-> factoryCalled, replaced |-> 0, stale |-> {}, popped |-> 0]

\* handles a caller can present: ConnectionHandle's field and constructor are
\* private, so a handle value comes from some pool's acquire_dedicated
KnownHandles == {h \in DOMAIN issued : issued[h] > 0} \cup foreign

\* connections to node_id held by a handle or idle in its free list
ConnsOfNode(node_id) ==
    {dedicated_sets[h][node_id].conn :
        h \in {k \in DOMAIN dedicated_sets : node_id \in DOMAIN dedicated_sets[k]}}
    \cup (IF node_id \in DOMAIN pools
          THEN {pools[node_id].available[i].conn :
                    i \in DOMAIN pools[node_id].available}
          ELSE {})

\* connections that exist: those a later get_connection could hand out
LiveConns == UNION {ConnsOfNode(n) : n \in Nodes}

\* the history of connections is kept for the connections of the next state
Track(marked1, failedOver1) ==
    /\ marked' = marked1 \cap LiveConns'
    /\ failedOver' = failedOver1 \cap LiveConns'

InitPool ==
    /\ COUNTER = 0
    /\ minted = {}
    /\ foreign = {}
    /\ dedicated_sets = <<>>
    /\ pools = <<>>
    /\ clients = {}
    /\ opened = 0
    /\ issued = [h \in HandleIds |-> 0]
    /\ released = {}
    /\ marked = {}
    /\ failedOver = {}
    /\ removedNodes = {}
    /\ last = Call("new", -1, "-", "-", 0, FALSE)

register_node(node_id) ==
    /\ clients' = clients \cup {node_id}
    /\ last' = Call("register_node", -1, node_id, "ok", 0, FALSE)
    /\ UNCHANGED <<COUNTER, minted, foreign, dedicated_sets, pools, opened>>
    /\ UNCHANGED <<issued, released, marked, failedOver>>

\* ConnectionHandle::new() inside acquire_dedicated, before the lock is awaited
acquire_dedicated_new ==
    /\ minted' = minted \cup {COUNTER}
    /\ COUNTER' = FetchAdd(COUNTER)
    /\ last' = Call("ConnectionHandle::new", COUNTER, "-", "ok", 0, FALSE)
    /\ UNCHANGED <<foreign, dedicated_sets, pools, clients, opened>>
    /\ UNCHANGED <<issued, released, marked, failedOver>>

\* the rest of acquire_dedicated, under dedicated_sets.write()
acquire_dedicated_insert(handle) ==
    /\ handle \in minted
    /\ minted' = minted \ {handle}
    /\ dedicated_sets' = MapInsert(dedicated_sets, handle, <<>>)
    /\ issued' = [issued EXCEPT ![handle] = @ + 1]
    /\ last' = Call("acquire_dedicated", handle, "-", "ok", 0, FALSE)
    /\ UNCHANGED <<COUNTER, foreign, pools, clients, opened>>
    /\ UNCHANGED <<released, marked, failedOver>>

\* ConnectionHandle::new() called by another ConnectionPool of the process
\* (COUNTER is a static shared by all pools)
foreign_acquire ==
    /\ foreign' = foreign \cup {COUNTER}
    /\ COUNTER' = FetchAdd(COUNTER)
    /\ last' = Call("foreign_acquire", COUNTER, "-", "ok", 0, FALSE)
    /\ UNCHANGED <<minted, dedicated_sets, pools, clients, opened>>
    /\ UNCHANGED <<issued, released, marked, failedOver>>

HandleKnownAlways(handle) == TRUE
HandleKnown(handle) == handle \in DOMAIN dedicated_sets

NodeConns(handle) ==
    IF handle \in DOMAIN dedicated_sets THEN dedicated_sets[handle] ELSE <<>>

EntryUsableAlways(managed) == TRUE
EntryUsable(managed) == managed.is_healthy

PoolEntry(node_id) ==
    IF node_id \in DOMAIN pools THEN pools[node_id] ELSE NodeConnectionPool_new

get_connection(handle, node_id, factory) ==
    /\ handle \in KnownHandles
    /\ LET node_conns == NodeConns(handle)
           a == acquire(PoolEntry(node_id), node_id, factory, opened + 1)
           old == IF node_id \in DOMAIN node_conns THEN node_conns[node_id].conn ELSE 0
       IN
       /\ UNCHANGED <<COUNTER, minted, foreign, clients>>
       /\ UNCHANGED <<issued, released>>
       /\ IF ~HandleKnown(handle)
          THEN /\ last' = Call("get_connection", handle, node_id, "Invalid handle", 0, FALSE)
               /\ UNCHANGED <<dedicated_sets, pools, opened>>
          ELSE IF node_id \in DOMAIN node_conns /\ EntryUsable(node_conns[node_id])
          THEN /\ last' = Call("get_connection", handle, node_id, "ok",
                               node_conns[node_id].conn, FALSE)
               /\ UNCHANGED <<dedicated_sets, pools, opened>>
          ELSE IF node_id \notin clients
          THEN /\ last' = Call("get_connection", handle, node_id, "Node not found", 0, FALSE)
               /\ UNCHANGED <<dedicated_sets, pools, opened>>
          ELSE /\ a.factoryCalled => /\ factory = "ok" => opened < MaxConns
                                     /\ factory # "ok" => a.pool.in_use <= MaxInUse
               /\ ~a.factoryCalled => factory = "ok"
               /\ pools' = MapInsert(pools, node_id, a.pool)
               /\ opened' = IF a.factoryCalled /\ factory = "ok" THEN opened + 1 ELSE opened
               /\ dedicated_sets' =
                    IF a.ok
                    THEN MapInsert(dedicated_sets, handle,
                                   MapInsert(node_conns, node_id, a.managed))
                    ELSE dedicated_sets
               /\ last' = [Call("get_connection", handle, node_id,
                                IF a.ok THEN "ok"
                                ELSE IF factory = "err" THEN "Connection open failed"
                                ELSE "cancelled",
                                a.managed.conn, a.factoryCalled)
                            EXCEPT !.popped = IF a.factoryCalled THEN 0
                                              ELSE Len(PoolEntry(node_id).available),
                                   !.replaced = IF a.ok THEN old ELSE 0,
                                   !.stale = IF a.ok
                                             THEN {t \in {"marked", "failedOver"} :
                                                     \/ t = "marked" /\ old \in marked
                                                     \/ t = "failedOver" /\ old \in failedOver}
                                             ELSE {}]
       /\ Track(marked, failedOver)


\* the for loop of release_dedicated over the removed node map
ReleaseAll(node_conns) ==
    [n \in DOMAIN pools |->
        IF n \in DOMAIN node_conns THEN release(pools[n], node_conns[n])
        ELSE pools[n]]

SetsKeepHandle(handle) == dedicated_sets
SetsRemoveHandle(handle) == MapRemove(dedicated_sets, handle)

SetsRemovePhantom(handle) ==
    [some |-> TRUE,
     node_conns |-> IF handle \in DOMAIN dedicated_sets THEN dedicated_sets[handle]
                    ELSE [n \in DOMAIN pools |->
                             mark_unhealthy(ManagedConnection_new(0, n))]]

\* the Option that sets.remove(&handle) returns
SetsRemove(handle) ==
    IF handle \in DOMAIN dedicated_sets
    THEN [some |-> TRUE, node_conns |-> dedicated_sets[handle]]
    ELSE [some |-> FALSE, node_conns |-> <<>>]

release_dedicated(handle) ==
    /\ handle \in KnownHandles
    /\ IF SetsRemove(handle).some
       THEN /\ dedicated_sets' = SetsRemoveHandle(handle)
            /\ pools' = ReleaseAll(SetsRemove(handle).node_conns)
       ELSE UNCHANGED <<dedicated_sets, pools>>
    /\ released' = IF issued[handle] > 0 THEN released \cup {handle}
                   ELSE released
    /\ last' = Call("release_dedicated", handle, "-", "ok", 0, FALSE)
    /\ Track(marked, failedOver)
    /\ UNCHANGED <<COUNTER, minted, foreign, clients, opened>>
    /\ UNCHANGED issued

MarkAll(node_conns, node_id) ==
    [n \in DOMAIN node_conns |-> mark_unhealthy(node_conns[n])]

\* node_conns.get_mut(node_id) followed by mark_unhealthy
MarkNode(node_conns, node_id) ==
    [n \in DOMAIN node_conns |->
        IF n = node_id THEN mark_unhealthy(node_conns[n]) ELSE node_conns[n]]

PoolsKeepNode(node_id) == pools
PoolsMarkNode(node_id) ==
    [n \in DOMAIN pools |->
        IF n = node_id
        THEN [pools[n] EXCEPT !.available =
                 [i \in DOMAIN pools[n].available |->
                     mark_unhealthy(pools[n].available[i])]]
        ELSE pools[n]]
PoolsRemoveNode(node_id) == MapRemove(pools, node_id)

\* the removed pool's residents are marked and dropped with old_pool
handle_failover(old_node_id, new_node_id) ==
    /\ dedicated_sets' =
         [h \in DOMAIN dedicated_sets |-> MarkNode(dedicated_sets[h], old_node_id)]
    /\ pools' = PoolsRemoveNode(old_node_id)
    /\ Track(marked, failedOver \cup ConnsOfNode(old_node_id))
    /\ last' = Call("handle_failover", -1, old_node_id, "ok", 0, FALSE)
    /\ UNCHANGED <<COUNTER, minted, foreign, clients, opened>>
    /\ UNCHANGED <<issued, released>>

mark_connection_unhealthy(handle, node_id) ==
    /\ handle \in KnownHandles
    /\ IF handle \in DOMAIN dedicated_sets
       THEN /\ dedicated_sets' =
                 [dedicated_sets EXCEPT ![handle] = MarkNode(@, node_id)]
            /\ marked' = IF node_id \in DOMAIN dedicated_sets[handle]
                         THEN marked \cup {dedicated_sets[handle][node_id].conn}
                         ELSE marked
       ELSE UNCHANGED <<dedicated_sets, marked>>
    /\ last' = Call("mark_connection_unhealthy", handle, node_id, "ok", 0, FALSE)
    /\ UNCHANGED <<COUNTER, minted, foreign, pools, clients, opened>>
    /\ UNCHANGED <<issued, released, failedOver>>

\* the clients registry is not touched
handle_topology_change(active_nodes) ==
    /\ dedicated_sets' =
         [h \in DOMAIN dedicated_sets |-> MapRetain(dedicated_sets[h], active_nodes)]
    /\ pools' = MapRetain(pools, active_nodes)
    /\ last' = Call("handle_topology_change", -1, "-", "ok", 0, FALSE)
    /\ Track(marked, failedOver)
    /\ UNCHANGED <<COUNTER, minted, foreign, clients, opened>>
    /\ UNCHANGED <<issued, released>>

(***************************************************************************)
(* scripts_container                                                       *)
(***************************************************************************)
Bodies == {"FOO", "BAR", "BAZ"}

\* Sha1::from(script).digest().to_string() on the bodies of the model
Sha1(script) ==
    CASE script = "FOO" -> "feab40e1fca77c7360ccca1481bb8ba5f919ce3a"
      [] script = "BAR" -> "a5d5c1bba91fdb6c669e1ae0413820885bbfc455"
      [] script = "BAZ" -> "8324feb44eda347289ca80c2cbf964a214ccd719"

Digests == {Sha1(b) : b \in Bodies}

AddModifyNone(entry) == entry
AddModify(entry) == [entry EXCEPT !.ref_count = @ + 1]

\* the container after add_script_async(script)
AddTo(container, script) ==
    LET hash == Sha1(script)
    IN IF hash \in DOMAIN container
       THEN [container EXCEPT ![hash] = AddModify(@)]
       ELSE MapInsert(container, hash, [code |-> script, ref_count |-> 1])

RemoveDropsNever(entry) == FALSE
RemoveDrops(entry) == entry.ref_count = 0

\* the container after remove_script_async(hash)
RemoveFrom(container, hash) ==
    IF hash \in DOMAIN container
    THEN LET entry == [container[hash] EXCEPT !.ref_count = @ - 1]
         IN IF RemoveDrops(entry)
            THEN MapRemove(container, hash)
            ELSE [container EXCEPT ![hash] = entry]
    ELSE container

\* get_script_async(hash)
GetFrom(container, hash) ==
    IF hash \in DOMAIN container THEN container[hash].code ELSE "None"

ScriptCall(op, hash, res) == [op |-> op, hash |-> hash, res |-> res]

Idle == [phase |-> "idle", hash |-> "-", shadow |-> <<>>, interleaved |-> FALSE]

InitScripts ==
    /\ CONTAINER = <<>>
    /\ adds = [d \in Digests |-> 0]
    /\ removes = [d \in Digests |-> 0]
    /\ probe = Idle
    /\ scriptLast = ScriptCall("new", "-", "-")

\* probe follows one add_script(s) up to the next remove_script(Sha1(s)), as
\* long as no other call uses that digest.  Its shadow is the cache the other
\* calls alone would have produced from the cache before the add.
add_script(script, follow) ==
    LET hash == Sha1(script)
    IN /\ adds[hash] < MaxAdds
       /\ CONTAINER' = AddTo(CONTAINER, script)
       /\ adds' = [adds EXCEPT ![hash] = @ + 1]
       /\ scriptLast' = ScriptCall("add_script", hash, hash)
       /\ probe' = IF follow
                   THEN [phase |-> "added", hash |-> hash, shadow |-> CONTAINER,
                         interleaved |-> FALSE]
                   ELSE IF probe.phase = "added" /\ probe.hash # hash
                   THEN [probe EXCEPT !.shadow = AddTo(@, script),
                                      !.interleaved = TRUE]
                   ELSE Idle
       /\ UNCHANGED removes

get_script(hash) ==
    /\ scriptLast' = ScriptCall("get_script", hash, GetFrom(CONTAINER, hash))
    /\ UNCHANGED <<CONTAINER, adds, removes, probe>>

remove_script(hash) ==
    /\ CONTAINER' = RemoveFrom(CONTAINER, hash)
    /\ removes' = IF hash \in DOMAIN CONTAINER
                  THEN [removes EXCEPT ![hash] = @ + 1]
                  ELSE removes
    /\ scriptLast' = ScriptCall("remove_script", hash, "-")
    /\ probe' = IF probe.phase = "added" /\ probe.hash = hash
                THEN [probe EXCEPT !.phase = "removed"]
                ELSE IF probe.phase = "added"
                THEN [probe EXCEPT !.shadow = RemoveFrom(@, hash),
                                   !.interleaved = TRUE]
                ELSE Idle
    /\ UNCHANGED adds

(***************************************************************************)
(* cluster_scan_container                                                  *)
(***************************************************************************)
\* values nanoid!() can produce, and scan states
Tokens == {"V1StGXR8_Z5jdHi6B-myT", "Uakgb_J5m9g-0JDMbcJqL"}
Cursors == {"c1", "c2"}

ScanCall(op, id, res) == [op |-> op, id |-> id, res |-> res]

InitScan ==
    /\ SCAN = <<>>
    /\ owner = <<>>
    /\ clobbered = {}
    /\ scanLast = ScanCall("new", "-", "-")

\* nanoid!() draws the id at random and the code does not look it up before
\* the insert: any token can come out, a live one included
insert_cluster_scan_cursor(scan_state) ==
    \E id \in Tokens :
        /\ SCAN' = MapInsert(SCAN, id, scan_state)
        /\ owner' = IF id \in DOMAIN owner THEN owner
                    ELSE MapInsert(owner, id, scan_state)
        /\ clobbered' = IF id \in DOMAIN owner THEN clobbered \cup {id}
                        ELSE clobbered
        /\ scanLast' = ScanCall("insert", id, id)

GetCursor(container, id) ==
    IF id \in DOMAIN container THEN container[id]
    ELSE "Invalid scan state cursor"

get_cluster_scan_cursor(id) ==
    /\ scanLast' = ScanCall("get", id, GetCursor(SCAN, id))
    /\ UNCHANGED <<SCAN, owner, clobbered>>

ScanRemoveNothing(container, id) == container
ScanRemove(container, id) == MapRemove(container, id)

remove_scan_state_cursor(id) ==
    /\ SCAN' = ScanRemove(SCAN, id)
    /\ owner' = MapRemove(owner, id)
    /\ clobbered' = clobbered \ {id}
    /\ scanLast' = ScanCall("remove", id, "-")

(***************************************************************************)
(* Client::send_command_dedicated (client/failover_integration.rs)         *)
(*                                                                         *)
(* The call awaits the pool three times and the server twice; the pool and *)
(* other tasks run in between, so it is one step per await.  pc tells      *)
(* where the call stands: "query1"/"query2" while a command is on the      *)
(* wire, "mark" and "reget" before the two pool calls of the retry arm.    *)
(***************************************************************************)
ErrorKinds == {"IoError", "ConnectionRefused", "Timeout", "ResponseError"}

is_connection_error_any(kind) == TRUE
is_connection_error(kind) == kind \in {"IoError", "ConnectionRefused", "Timeout"}

NoCmd ==
    [pc |-> "idle", handle |-> -1, node |-> "-", sent |-> 0, first |-> 0,
     second |-> 0, err1 |-> "-", marks |-> 0, gets |-> 0, res |-> "-"]

InitClient == cmd = NoCmd

\* lines 50-53: route the command, then the first get_connection
send_command_dedicated(handle, route, factory) ==
    /\ cmd.pc = "idle"
    /\ IF route = "err"
       THEN /\ handle \in KnownHandles
            /\ cmd' = [NoCmd EXCEPT !.pc = "done", !.handle = handle,
                                    !.res = "routing error"]
            /\ UNCHANGED <<poolVars, issued, released, marked, failedOver, last>>
       ELSE /\ get_connection(handle, route, factory)
            /\ cmd' = IF last'.res = "ok"
                      THEN [NoCmd EXCEPT !.pc = "query1", !.handle = handle,
                                         !.node = route, !.gets = 1,
                                         !.first = last'.conn]
                      ELSE [NoCmd EXCEPT !.pc = "done", !.handle = handle,
                                         !.node = route, !.gets = 1,
                                         !.res = last'.res]

\* lines 56-58 and 66: the outcome of the first cmd.query_async
query1(outcome) ==
    /\ cmd.pc = "query1"
    /\ cmd' = IF outcome = "Ok"
              THEN [cmd EXCEPT !.pc = "done", !.sent = @ + 1, !.res = "Ok"]
              ELSE IF is_connection_error(outcome)
              THEN [cmd EXCEPT !.pc = "mark", !.sent = @ + 1, !.err1 = outcome]
              ELSE [cmd EXCEPT !.pc = "done", !.sent = @ + 1, !.err1 = outcome,
                               !.res = outcome]
    /\ UNCHANGED <<poolVars, issued, released, marked, failedOver, last>>

\* line 60
retry_mark ==
    /\ cmd.pc = "mark"
    /\ mark_connection_unhealthy(cmd.handle, cmd.node)
    /\ cmd' = [cmd EXCEPT !.pc = "reget", !.marks = @ + 1]

\* line 63
retry_get(factory) ==
    /\ cmd.pc = "reget"
    /\ get_connection(cmd.handle, cmd.node, factory)
    /\ cmd' = IF last'.res = "ok"
              THEN [cmd EXCEPT !.pc = "query2", !.gets = @ + 1,
                               !.second = last'.conn]
              ELSE [cmd EXCEPT !.pc = "done", !.gets = @ + 1, !.res = last'.res]

\* line 64: the outcome of the second cmd.query_async is the call's result
query2(outcome) ==
    /\ cmd.pc = "query2"
    /\ cmd' = [cmd EXCEPT !.pc = "done", !.sent = @ + 1, !.res = outcome]
    /\ UNCHANGED <<poolVars, issued, released, marked, failedOver, last>>

(***************************************************************************)
(* get_connection at the level of its lock guards.                         *)
(*                                                                         *)
(* A call awaits dedicated_sets.write() (line 117), clients.read() (134),  *)
(* pools.write() (138) and, inside NodeConnectionPool::acquire, the client *)
(* factory (65); every guard taken lives to the end of the call.  The      *)
(* other operations take dedicated_sets.write() first (register_node:      *)
(* clients.write()) and are one step each, taken when that lock is free.   *)
(***************************************************************************)
\* with: the tasks whose call for the same handle and node was on its way
\* together with this one, no other operation having changed entries since
NoTask ==
    [pc |-> "idle", handle |-> -1, node |-> "-", res |-> "-", conn |-> 0,
     obtained |-> FALSE, with |-> {}]

NoLocks == [sets |-> 0, clients |-> {}, pools |-> 0]

InitLock ==
    /\ tasks = [t \in Tasks |-> NoTask]
    /\ locks = NoLocks

InFlight(t) == tasks[t].pc \notin {"idle", "done"}

SetsLockFreeAlways == TRUE
SetsLockFree == locks.sets = 0

\* the guards of a returning call are dropped
Unlock(t) ==
    [sets |-> IF locks.sets = t THEN 0 ELSE locks.sets,
     clients |-> locks.clients \ {t},
     pools |-> IF locks.pools = t THEN 0 ELSE locks.pools]

\* the result of a finished call is kept as long as a call it ran together
\* with is on its way or finished
Forget(ts) ==
    [t \in Tasks |->
        IF ts[t].pc = "done" /\ ts[t].with = {} THEN NoTask ELSE ts[t]]

Return(t, res, conn, obtained, factoryCalled) ==
    /\ tasks' = Forget([tasks EXCEPT ![t].pc = "done", ![t].res = res,
                                     ![t].conn = conn, ![t].obtained = obtained])
    /\ locks' = Unlock(t)
    /\ last' = Call("get_connection", tasks[t].handle, tasks[t].node, res, conn,
                    factoryCalled)

\* the call is made and waits for dedicated_sets.write()
gc_call(t, handle, node_id) ==
    /\ ~InFlight(t)
    /\ handle \in KnownHandles
    /\ LET together == {u \in Tasks \ {t} :
                           /\ InFlight(u)
                           /\ tasks[u].handle = handle /\ tasks[u].node = node_id}
       IN tasks' = Forget([u \in Tasks |->
                     IF u = t
                     THEN [NoTask EXCEPT !.pc = "wait_sets", !.handle = handle,
                                         !.node = node_id, !.with = together]
                     ELSE IF u \in together
                     THEN [tasks[u] EXCEPT !.with = @ \cup {t}]
                     ELSE [tasks[u] EXCEPT !.with = @ \ {t}]])
    /\ UNCHANGED <<poolVars, issued, released, marked, failedOver, last, locks>>

\* lines 117-131
gc_lock_sets(t) ==
    /\ tasks[t].pc = "wait_sets"
    /\ SetsLockFree
    /\ LET handle == tasks[t].handle
           node_id == tasks[t].node
           node_conns == NodeConns(handle)
       IN IF ~HandleKnown(handle)
          THEN Return(t, "Invalid handle", 0, FALSE, FALSE)
          ELSE IF node_id \in DOMAIN node_conns /\ EntryUsable(node_conns[node_id])
          THEN Return(t, "ok", node_conns[node_id].conn, FALSE, FALSE)
          ELSE /\ tasks' = [tasks EXCEPT ![t].pc = "wait_clients"]
               /\ locks' = [locks EXCEPT !.sets = t]
               /\ UNCHANGED last
    /\ UNCHANGED <<poolVars, issued, released, marked, failedOver>>

\* lines 134-136
gc_lock_clients(t) ==
    /\ tasks[t].pc = "wait_clients"
    /\ IF tasks[t].node \notin clients
       THEN Return(t, "Node not found", 0, FALSE, FALSE)
       ELSE /\ tasks' = [tasks EXCEPT ![t].pc = "wait_pools"]
            /\ locks' = [locks EXCEPT !.clients = @ \cup {t}]
            /\ UNCHANGED last
    /\ UNCHANGED <<poolVars, issued, released, marked, failedOver>>

\* the managed connection is put into the handle's node map (line 143)
Install(handle, node_id, managed) ==
    MapInsert(dedicated_sets, handle, MapInsert(NodeConns(handle), node_id, managed))

\* lines 138-140 up to the factory's await: the pop loop and in_use += 1
gc_lock_pools(t) ==
    /\ tasks[t].pc = "wait_pools"
    /\ locks.pools = 0
    /\ LET handle == tasks[t].handle
           node_id == tasks[t].node
           a == acquire(PoolEntry(node_id), node_id, "ok", opened + 1)
       IN /\ pools' = MapInsert(pools, node_id, a.pool)
          /\ IF a.factoryCalled
             THEN /\ tasks' = [tasks EXCEPT ![t].pc = "factory"]
                  /\ locks' = [locks EXCEPT !.pools = t]
                  /\ UNCHANGED <<dedicated_sets, last>>
             ELSE /\ dedicated_sets' = Install(handle, node_id, a.managed)
                  /\ Return(t, "ok", a.managed.conn, TRUE, FALSE)
    /\ Track(marked, failedOver)
    /\ UNCHANGED <<COUNTER, minted, foreign, clients, opened, issued, released>>

\* the factory's await returns (line 65), then lines 66 and 143-144
gc_factory(t, factory) ==
    /\ tasks[t].pc = "factory"
    /\ LET handle == tasks[t].handle
           node_id == tasks[t].node
       IN IF factory = "ok"
          THEN /\ opened < MaxConns
               /\ opened' = opened + 1
               /\ dedicated_sets' =
                    Install(handle, node_id, ManagedConnection_new(opened + 1, node_id))
               /\ Return(t, "ok", opened + 1, TRUE, TRUE)
          ELSE /\ PoolEntry(node_id).in_use <= MaxInUse
               /\ Return(t, IF factory = "err" THEN "Connection open failed"
                            ELSE "cancelled", 0, FALSE, TRUE)
               /\ UNCHANGED <<dedicated_sets, opened>>
    /\ UNCHANGED <<COUNTER, minted, foreign, clients, pools, issued, released>>
    /\ Track(marked, failedOver)

\* an operation that changes entries runs between the calls
Disturbed == Forget([t \in Tasks |-> [tasks[t] EXCEPT !.with = {}]])

Disturb ==
    /\ tasks' = Disturbed
    /\ UNCHANGED locks

(***************************************************************************)
(* The other operations at the level of their lock guards.                 *)
(*                                                                         *)
(* register_node awaits clients.write() only; acquire_dedicated and        *)
(* mark_connection_unhealthy await dedicated_sets.write() only, and so     *)
(* does release_dedicated when the handle is not in the table.  The others *)
(* await dedicated_sets.write() and then, holding it, pools.write().  What *)
(* an operation changes under dedicated_sets.write() is seen by nobody     *)
(* before the guard is dropped, so the changes are made in its last step.  *)
(***************************************************************************)
NoOp == [op |-> "-", handle |-> -1, held |-> 0]

InitOrder == ops = [t \in Tasks |-> NoOp]

Busy(t) == ops[t].op # "-" \/ InFlight(t)

\* the calls a task can make; the arguments of a call are looked at for the
\* first time under its first lock and are drawn there
Requests ==
    {"register_node", "release_dedicated", "mark_connection_unhealthy",
     "handle_failover", "handle_topology_change"}

\* the locks of an operation that takes two, in the order it awaits them
LockOrderFailoverPoolsFirst(op) ==
    IF op = "handle_failover" THEN <<"pools", "sets">> ELSE <<"sets", "pools">>
LockOrder(op) == <<"sets", "pools">>

LockIsFree(l) == IF l = "sets" THEN SetsLockFree ELSE locks.pools = 0

\* whether the call awaits a second lock
TwoLocks(op, handle) ==
    \/ op \in {"handle_failover", "handle_topology_change"}
    \/ op = "release_dedicated" /\ SetsRemove(handle).some

\* what the call does to the pool
Effect(op, handle, node_id, active_nodes) ==
    CASE op = "register_node" -> register_node(node_id)
      [] op = "acquire_dedicated" -> acquire_dedicated_insert(handle)
      [] op = "release_dedicated" -> release_dedicated(handle)
      [] op = "mark_connection_unhealthy" ->
            mark_connection_unhealthy(handle, node_id)
      [] op = "handle_failover" -> handle_failover(node_id, node_id)
      [] op = "handle_topology_change" -> handle_topology_change(active_nodes)

\* a call is made; nothing is awaited yet (a caller of release_dedicated or
\* mark_connection_unhealthy has a handle to pass)
op_call(t, op) ==
    /\ ~Busy(t)
    /\ op \in {"release_dedicated", "mark_connection_unhealthy"} => KnownHandles # {}
    /\ ops' = [ops EXCEPT ![t] = [NoOp EXCEPT !.op = op]]
    /\ UNCHANGED <<poolVars, issued, released, marked, failedOver, last, tasks, locks>>

\* acquire_dedicated is called: ConnectionHandle::new() (line 109)
op_acquire_call(t) ==
    /\ ~Busy(t)
    /\ acquire_dedicated_new
    /\ ops' = [ops EXCEPT ![t] = [NoOp EXCEPT !.op = "acquire_dedicated",
                                              !.handle = COUNTER]]
    /\ UNCHANGED <<tasks, locks>>

\* register_node: clients.write() is granted, line 104, the guard is dropped
op_register(t, node_id) ==
    /\ ops[t].op = "register_node"
    /\ locks.clients = {}
    /\ Effect(ops[t].op, -1, node_id, {})
    /\ ops' = [ops EXCEPT ![t] = NoOp]
    /\ UNCHANGED <<tasks, locks>>

\* an operation that awaits dedicated_sets.write() only
op_single(t, handle, node_id) ==
    /\ ops[t].op \in {"acquire_dedicated", "mark_connection_unhealthy",
                      "release_dedicated"}
    /\ ops[t].op = "acquire_dedicated" => handle = ops[t].handle
    /\ ~TwoLocks(ops[t].op, handle)
    /\ SetsLockFree
    /\ Effect(ops[t].op, handle, node_id, {})
    /\ ops' = [ops EXCEPT ![t] = NoOp]
    /\ tasks' = IF ops[t].op = "acquire_dedicated" THEN tasks ELSE Disturbed
    /\ UNCHANGED locks

\* the first lock of an operation that awaits two is granted
op_first(t, handle) ==
    /\ ops[t].op # "-" /\ ops[t].held = 0
    /\ TwoLocks(ops[t].op, handle)
    /\ IF ops[t].op = "release_dedicated" THEN handle \in KnownHandles
       ELSE handle = -1
    /\ LockIsFree(LockOrder(ops[t].op)[1])
    /\ locks' = [locks EXCEPT ![LockOrder(ops[t].op)[1]] = t]
    /\ ops' = [ops EXCEPT ![t].held = 1, ![t].handle = handle]
    /\ UNCHANGED <<poolVars, issued, released, marked, failedOver, last, tasks>>

\* the second lock is granted, the operation does its work and returns
op_second(t, node_id, active_nodes) ==
    /\ ops[t].held = 1
    /\ LockIsFree(LockOrder(ops[t].op)[2])
    /\ Effect(ops[t].op, ops[t].handle, node_id, active_nodes)
    /\ ops' = [ops EXCEPT ![t] = NoOp]
    /\ tasks' = Disturbed
    /\ locks' = Unlock(t)

(***************************************************************************)
(* ChannelRwLock (redis/src/cluster_async/channel_lock.rs)                 *)
(*                                                                         *)
(* A request is a LockRequest sent to the manager task spawned by new; the *)
(* manager answers each request in turn with a guard made from the raw     *)
(* pointer.  A guard is live from the moment the manager makes it until    *)
(* its owner drops it; the guard types have no Drop implementation and the *)
(* manager keeps no record of the guards it made.                          *)
(***************************************************************************)
ChTasks == 1 .. MaxChTasks
Kinds == {"Read", "Write"}

InitChannel ==
    /\ chQueue = <<>>
    /\ chTasks = [t \in ChTasks |-> [pc |-> "idle", kind |-> "-"]]

\* read / write / blocking_read / blocking_write up to the wait for the answer
ch_request(t, kind) ==
    /\ chTasks[t].pc = "idle"
    /\ chQueue' = Append(chQueue, [task |-> t, kind |-> kind])
    /\ chTasks' = [chTasks EXCEPT ![t] = [pc |-> "waiting", kind |-> kind]]

\* one turn of the manager's loop: the guard goes into the oneshot channel,
\* or is dropped at once when the receiver is gone
ch_manager ==
    /\ chQueue # <<>>
    /\ chQueue' = Tail(chQueue)
    /\ LET req == Head(chQueue)
       IN chTasks' = [chTasks EXCEPT ![req.task] =
                        IF @.pc = "gone" THEN [pc |-> "idle", kind |-> "-"]
                        ELSE [pc |-> "sent", kind |-> req.kind]]

\* rx.await / rx.blocking_recv returns the guard
ch_receive(t) ==
    /\ chTasks[t].pc = "sent"
    /\ chTasks' = [chTasks EXCEPT ![t].pc = "holding"]
    /\ UNCHANGED chQueue

\* the future of read or write is dropped before it completes
ch_cancel(t) ==
    /\ chTasks[t].pc \in {"waiting", "sent"}
    /\ chTasks' = [chTasks EXCEPT ![t] =
                     IF @.pc = "waiting" THEN [pc |-> "gone", kind |-> @.kind]
                     ELSE [pc |-> "idle", kind |-> "-"]]
    /\ UNCHANGED chQueue

\* the owner drops its guard
ch_drop(t) ==
    /\ chTasks[t].pc = "holding"
    /\ chTasks' = [chTasks EXCEPT ![t] = [pc |-> "idle", kind |-> "-"]]
    /\ UNCHANGED chQueue

(***************************************************************************)
(* HybridRwLock (redis/src/cluster_async/hybrid_lock.rs)                   *)
(*                                                                         *)
(* read and write await the inner tokio RwLock, which serves its waiters   *)
(* in the order of their requests and passes the lock on to them when a    *)
(* guard is dropped.  blocking_read and blocking_write are loops around    *)
(* try_read and try_write, which never wait and never queue.               *)
(***************************************************************************)
HyTasks == 1 .. MaxHyTasks

InitHybrid ==
    /\ hyQueue = <<>>
    /\ hyTasks = [t \in HyTasks |-> "idle"]

HyReaders(ts) == {t \in HyTasks : ts[t] = "reading"}
HyWriters(ts) == {t \in HyTasks : ts[t] = "writing"}

\* inner.try_read() and inner.try_write() succeed
TryReadOk ==
    /\ HyWriters(hyTasks) = {}
    /\ \A i \in DOMAIN hyQueue : hyTasks[hyQueue[i]] # "wait_W"
TryWriteOk == HyReaders(hyTasks) = {} /\ HyWriters(hyTasks) = {}

\* the waiters at the front of the queue that can be served are served
RECURSIVE HyGrant(_, _)
HyGrant(queue, ts) ==
    IF queue = <<>> THEN [queue |-> queue, tasks |-> ts]
    ELSE LET t == Head(queue)
         IN IF ts[t] = "wait_R" /\ HyWriters(ts) = {}
            THEN HyGrant(Tail(queue), [ts EXCEPT ![t] = "reading"])
            ELSE IF ts[t] = "wait_W" /\ HyWriters(ts) = {} /\ HyReaders(ts) = {}
            THEN HyGrant(Tail(queue), [ts EXCEPT ![t] = "writing"])
            ELSE [queue |-> queue, tasks |-> ts]

\* lines 22-24: read().await, served at once or queued
hy_read(t) ==
    /\ hyTasks[t] = "idle"
    /\ LET g == HyGrant(Append(hyQueue, t), [hyTasks EXCEPT ![t] = "wait_R"])
       IN hyQueue' = g.queue /\ hyTasks' = g.tasks

\* lines 27-29: write().await, served at once or queued
hy_write(t) ==
    /\ hyTasks[t] = "idle"
    /\ LET g == HyGrant(Append(hyQueue, t), [hyTasks EXCEPT ![t] = "wait_W"])
       IN hyQueue' = g.queue /\ hyTasks' = g.tasks

\* a thread enters blocking_read or blocking_write
hy_blocking(t, kind) ==
    /\ hyTasks[t] = "idle"
    /\ hyTasks' = [hyTasks EXCEPT ![t] = IF kind = "Read" THEN "spin_R" ELSE "spin_W"]
    /\ UNCHANGED hyQueue

\* lines 34-39: one turn of the loop of blocking_read
hy_try_read(t) ==
    /\ hyTasks[t] = "spin_R"
    /\ hyTasks' = IF TryReadOk THEN [hyTasks EXCEPT ![t] = "reading"] ELSE hyTasks
    /\ UNCHANGED hyQueue

\* lines 45-50: one turn of the loop of blocking_write
hy_try_write(t) ==
    /\ hyTasks[t] = "spin_W"
    /\ hyTasks' = IF TryWriteOk THEN [hyTasks EXCEPT ![t] = "writing"] ELSE hyTasks
    /\ UNCHANGED hyQueue

\* a guard is dropped and the lock passed on to the waiters
hy_drop(t) ==
    /\ hyTasks[t] \in {"reading", "writing"}
    /\ LET g == HyGrant(hyQueue, [hyTasks EXCEPT ![t] = "idle"])
       IN hyQueue' = g.queue /\ hyTasks' = g.tasks

Init ==
    /\ InitPool /\ InitScripts /\ InitScan /\ InitClient /\ InitLock /\ InitOrder
    /\ InitChannel /\ InitHybrid

\* the variables no pool operation touches
nonClient == <<removedNodes, scriptVars, scanVars, lockVars, orderVars, rwVars>>
nonOrder == <<removedNodes, scriptVars, scanVars, clientVars, rwVars>>
nonLock == <<nonOrder, orderVars>>
nonPool == <<nonOrder, lockVars, orderVars>>

Next ==
    \/ \E n \in Nodes : register_node(n) /\ UNCHANGED nonPool
    \/ COUNTER < MaxHandles /\ acquire_dedicated_new /\ UNCHANGED nonPool
    \/ \E h \in HandleIds : acquire_dedicated_insert(h) /\ UNCHANGED nonPool
    \/ COUNTER < MaxHandles /\ foreign_acquire /\ UNCHANGED nonPool
    \/ \E h \in HandleIds, n \in Nodes, f \in {"ok", "err", "cancel"} :
          get_connection(h, n, f) /\ UNCHANGED nonPool
    \/ \E h \in HandleIds : release_dedicated(h) /\ UNCHANGED nonPool
    \/ \E h \in HandleIds, n \in Nodes :
          mark_connection_unhealthy(h, n) /\ UNCHANGED nonPool
    \/ \E o \in Nodes, n \in Nodes : handle_failover(o, n) /\ UNCHANGED nonPool
    \/ \E a \in SUBSET Nodes : handle_topology_change(a) /\ UNCHANGED nonPool

Spec == Init /\ [][Next]_vars

(***************************************************************************)
(* The pool with the history of topology changes: removedNodes holds the   *)
(* nodes a handle_topology_change left out and no register_node has        *)
(* registered since.                                                       *)
(***************************************************************************)
NextTopology ==
    \/ \E n \in Nodes :
          /\ register_node(n)
          /\ removedNodes' = removedNodes \ {n}
          /\ UNCHANGED <<scriptVars, scanVars, clientVars, lockVars, orderVars, rwVars>>
    \/ COUNTER < MaxHandles /\ acquire_dedicated_new /\ UNCHANGED nonPool
    \/ \E h \in HandleIds : acquire_dedicated_insert(h) /\ UNCHANGED nonPool
    \/ \E h \in HandleIds, n \in Nodes, f \in {"ok", "err", "cancel"} :
          get_connection(h, n, f) /\ UNCHANGED nonPool
    \/ \E h \in HandleIds : release_dedicated(h) /\ UNCHANGED nonPool
    \/ \E h \in HandleIds, n \in Nodes :
          mark_connection_unhealthy(h, n) /\ UNCHANGED nonPool
    \/ \E a \in SUBSET Nodes :
          /\ handle_topology_change(a)
          /\ removedNodes' = removedNodes \cup (Nodes \ a)
          /\ UNCHANGED <<scriptVars, scanVars, clientVars, lockVars, orderVars, rwVars>>

SpecTopology == Init /\ [][NextTopology]_vars

(***************************************************************************)
(* The pool under sessions that come and go: more handles than in Spec,    *)
(* every factory call succeeds and no cluster event happens, so that free  *)
(* lists fill up and are drained.                                          *)
(***************************************************************************)
NextReuse ==
    \/ \E n \in Nodes : register_node(n) /\ UNCHANGED nonPool
    \/ COUNTER < MaxReuseHandles /\ acquire_dedicated_new /\ UNCHANGED nonPool
    \/ \E h \in HandleIds : acquire_dedicated_insert(h) /\ UNCHANGED nonPool
    \/ \E h \in HandleIds, n \in Nodes :
          get_connection(h, n, "ok") /\ UNCHANGED nonPool
    \/ \E h \in HandleIds : release_dedicated(h) /\ UNCHANGED nonPool
    \/ \E h \in HandleIds, n \in Nodes :
          mark_connection_unhealthy(h, n) /\ UNCHANGED nonPool

SpecReuse == Init /\ [][NextReuse]_vars

(***************************************************************************)
(* One send_command_dedicated call, up to its return, while other tasks    *)
(* use the pool (the same handle included) and the cluster fails over and  *)
(* reshapes.                                                               *)
(***************************************************************************)
NextClient ==
    \/ \E n \in Nodes :
          cmd.pc # "done" /\ register_node(n) /\ UNCHANGED nonPool
    \/ /\ cmd.pc # "done" /\ COUNTER < MaxClientHandles
       /\ acquire_dedicated_new /\ UNCHANGED nonPool
    \/ \E h \in HandleIds :
          cmd.pc # "done" /\ acquire_dedicated_insert(h) /\ UNCHANGED nonPool
    \/ \E h \in HandleIds, n \in Nodes :
          cmd.pc # "done" /\ get_connection(h, n, "ok") /\ UNCHANGED nonPool
    \/ \E h \in HandleIds :
          cmd.pc # "done" /\ release_dedicated(h) /\ UNCHANGED nonPool
    \/ \E h \in HandleIds, n \in Nodes :
          cmd.pc # "done" /\ mark_connection_unhealthy(h, n) /\ UNCHANGED nonPool
    \/ \E o \in Nodes, n \in Nodes :
          cmd.pc # "done" /\ handle_failover(o, n) /\ UNCHANGED nonPool
    \/ \E a \in SUBSET Nodes :
          cmd.pc # "done" /\ handle_topology_change(a) /\ UNCHANGED nonPool
    \/ \E h \in HandleIds, r \in Nodes \cup {"err"}, f \in {"ok", "err"} :
          send_command_dedicated(h, r, f) /\ UNCHANGED nonClient
    \/ \E k \in ErrorKinds \cup {"Ok"} : query1(k) /\ UNCHANGED nonClient
    \/ retry_mark /\ UNCHANGED nonClient
    \/ \E f \in {"ok", "err"} : retry_get(f) /\ UNCHANGED nonClient
    \/ \E k \in ErrorKinds \cup {"Ok"} : query2(k) /\ UNCHANGED nonClient

SpecClient == Init /\ [][NextClient]_vars

(***************************************************************************)
(* Tasks calling get_connection concurrently, step by step, while         *)
(* sessions begin and end, connections are marked and the topology changes *)
(* whenever the locks let them.                                            *)
(***************************************************************************)
NextLock ==
    \/ \E n \in Nodes :
          /\ locks.clients = {}
          /\ register_node(n) /\ UNCHANGED nonPool
    \/ /\ COUNTER < MaxLockHandles
       /\ acquire_dedicated_new /\ UNCHANGED nonPool
    \/ \E h \in HandleIds :
          /\ SetsLockFree
          /\ acquire_dedicated_insert(h) /\ UNCHANGED nonPool
    \/ \E h \in HandleIds :
          /\ SetsLockFree
          /\ release_dedicated(h) /\ Disturb /\ UNCHANGED nonLock
    \/ \E h \in HandleIds, n \in Nodes :
          /\ SetsLockFree
          /\ mark_connection_unhealthy(h, n) /\ Disturb /\ UNCHANGED nonLock
    \/ \E a \in SUBSET Nodes :
          /\ SetsLockFree
          /\ handle_topology_change(a) /\ Disturb /\ UNCHANGED nonLock
    \/ \E t \in Tasks, h \in HandleIds, n \in Nodes :
          gc_call(t, h, n) /\ UNCHANGED nonLock
    \/ \E t \in Tasks : gc_lock_sets(t) /\ UNCHANGED nonLock
    \/ \E t \in Tasks : gc_lock_clients(t) /\ UNCHANGED nonLock
    \/ \E t \in Tasks : gc_lock_pools(t) /\ UNCHANGED nonLock
    \/ \E t \in Tasks, f \in {"ok", "err", "cancel"} :
          gc_factory(t, f) /\ UNCHANGED nonLock

SpecLock == Init /\ [][NextLock]_vars

(***************************************************************************)
(* Tasks making any pool calls concurrently, every call step by step.  A   *)
(* get_connection is begun only when a connection can still be opened for  *)
(* it, so that its factory call can return.                                *)
(***************************************************************************)
CanOpen == opened + Cardinality({u \in Tasks : InFlight(u)}) < MaxOrderConns

NextOrder ==
    \/ \E t \in Tasks, op \in Requests : op_call(t, op) /\ UNCHANGED nonOrder
    \/ \E t \in Tasks :
          /\ COUNTER < MaxLockHandles
          /\ op_acquire_call(t) /\ UNCHANGED nonOrder
    \/ \E t \in Tasks, h \in HandleIds, n \in Nodes :
          /\ ~Busy(t) /\ CanOpen
          /\ gc_call(t, h, n) /\ UNCHANGED nonLock
    \/ \E t \in Tasks, n \in Nodes : op_register(t, n) /\ UNCHANGED nonOrder
    \/ \E t \in Tasks, h \in HandleIds, n \in Nodes :
          op_single(t, h, n) /\ UNCHANGED nonOrder
    \/ \E t \in Tasks, h \in HandleIds \cup {-1} :
          op_first(t, h) /\ UNCHANGED nonOrder
    \/ \E t \in Tasks, n \in Nodes, a \in SUBSET Nodes :
          op_second(t, n, a) /\ UNCHANGED nonOrder
    \/ \E t \in Tasks : gc_lock_sets(t) /\ UNCHANGED nonLock
    \/ \E t \in Tasks : gc_lock_clients(t) /\ UNCHANGED nonLock
    \/ \E t \in Tasks : gc_lock_pools(t) /\ UNCHANGED nonLock
    \/ \E t \in Tasks, f \in {"ok", "err", "cancel"} :
          gc_factory(t, f) /\ UNCHANGED nonLock

\* the steps that carry on the call of t
Proceed(t) ==
    \/ /\ \/ \E n \in Nodes : op_register(t, n)
          \/ \E h \in HandleIds, n \in Nodes : op_single(t, h, n)
          \/ \E h \in HandleIds \cup {-1} : op_first(t, h)
          \/ \E n \in Nodes, a \in SUBSET Nodes : op_second(t, n, a)
       /\ UNCHANGED nonOrder
    \/ /\ \/ gc_lock_sets(t) \/ gc_lock_clients(t) \/ gc_lock_pools(t)
          \/ \E f \in {"ok", "err", "cancel"} : gc_factory(t, f)
       /\ UNCHANGED nonLock

SpecOrder == Init /\ [][NextOrder]_vars

\* tokio's RwLock serves its waiters in order, so a task that waits for a
\* lock that is free again and again is granted it; a factory call returns
SpecOrderFair == SpecOrder /\ \A t \in Tasks : SF_vars(Proceed(t))

(***************************************************************************)
(* The script cache and the scan cursor registry on their own              *)
(***************************************************************************)
poolAll == <<poolVars, poolHist, clientVars, lockVars, orderVars>>
nonChannel == <<poolAll, removedNodes, scriptVars, scanVars, hybridVars>>
nonHybrid == <<poolAll, removedNodes, scriptVars, scanVars, channelVars>>

(***************************************************************************)
(* Tasks and threads sharing one ChannelRwLock                             *)
(***************************************************************************)
NextChannel ==
    \/ \E t \in ChTasks, k \in Kinds : ch_request(t, k) /\ UNCHANGED nonChannel
    \/ ch_manager /\ UNCHANGED nonChannel
    \/ \E t \in ChTasks : ch_receive(t) /\ UNCHANGED nonChannel
    \/ \E t \in ChTasks : ch_cancel(t) /\ UNCHANGED nonChannel
    \/ \E t \in ChTasks : ch_drop(t) /\ UNCHANGED nonChannel

SpecChannel == Init /\ [][NextChannel]_vars

(***************************************************************************)
(* Threads and tasks sharing one HybridRwLock.  Every holder drops its     *)
(* guard in the end, and a spinning thread that finds the lock free again  *)
(* and again takes it in the end.                                          *)
(***************************************************************************)
NextHybrid ==
    \/ \E t \in HyTasks : hy_read(t) /\ UNCHANGED nonHybrid
    \/ \E t \in HyTasks : hy_write(t) /\ UNCHANGED nonHybrid
    \/ \E t \in HyTasks, k \in Kinds : hy_blocking(t, k) /\ UNCHANGED nonHybrid
    \/ \E t \in HyTasks : hy_try_read(t) /\ UNCHANGED nonHybrid
    \/ \E t \in HyTasks : hy_try_write(t) /\ UNCHANGED nonHybrid
    \/ \E t \in HyTasks : hy_drop(t) /\ UNCHANGED nonHybrid

HybridFair ==
    \A t \in HyTasks :
       /\ WF_vars(hy_drop(t) /\ UNCHANGED nonHybrid)
       /\ SF_vars(hy_try_read(t) /\ UNCHANGED nonHybrid)
       /\ SF_vars(hy_try_write(t) /\ UNCHANGED nonHybrid)

SpecHybrid == Init /\ [][NextHybrid]_vars /\ HybridFair


NextScripts ==
    \/ \E b \in Bodies, follow \in BOOLEAN :
          add_script(b, follow) /\ UNCHANGED <<poolAll, scanVars, rwVars>>
    \/ \E d \in Digests : get_script(d) /\ UNCHANGED <<poolAll, scanVars, rwVars>>
    \/ \E d \in Digests : remove_script(d) /\ UNCHANGED <<poolAll, scanVars, rwVars>>

SpecScripts == Init /\ [][NextScripts]_vars

NextScan ==
    \/ \E c \in Cursors :
          insert_cluster_scan_cursor(c) /\ UNCHANGED <<poolAll, scriptVars, rwVars>>
    \/ \E t \in Tokens :
          get_cluster_scan_cursor(t) /\ UNCHANGED <<poolAll, scriptVars, rwVars>>
    \/ \E t \in Tokens :
          remove_scan_state_cursor(t) /\ UNCHANGED <<poolAll, scriptVars, rwVars>>

SpecScan == Init /\ [][NextScan]_vars

(***************************************************************************)
(* Properties of the connection pool                                       *)
(***************************************************************************)
\* the (handle, node) slots of the table that hold connection c
Holders(c) ==
    {hn \in (DOMAIN dedicated_sets) \X Nodes :
        /\ hn[2] \in DOMAIN dedicated_sets[hn[1]]
        /\ dedicated_sets[hn[1]][hn[2]].conn = c}

\* the free-list positions that hold connection c
IdleSlots(c) ==
    {ni \in (DOMAIN pools) \X (1 .. MaxConns + 1) :
        /\ ni[2] \in DOMAIN pools[ni[1]].available
        /\ pools[ni[1]].available[ni[2]].conn = c}

\* C1: every connection is in at most one place: in the node map of at most
\* one handle (under one node), or once in one free list, never both; so two
\* live handles never hold the same connection.
C1_ExclusiveOwnership ==
    \A c \in 1 .. opened :
        Cardinality(Holders(c)) + Cardinality(IdleSlots(c)) <= 1

\* two live handles hold a healthy connection to the same node, obtained by
\* get_connection
C1_Witness ==
    /\ last.op = "get_connection" /\ last.res = "ok"
    /\ \E h1 \in DOMAIN dedicated_sets, h2 \in DOMAIN dedicated_sets, n \in Nodes :
          /\ h1 # h2
          /\ n \in DOMAIN dedicated_sets[h1] /\ n \in DOMAIN dedicated_sets[h2]
          /\ dedicated_sets[h1][n].is_healthy /\ dedicated_sets[h2][n].is_healthy

\* C2: once a topology change has left node n out (and n has not been
\* registered again), get_connection(h, n) of a live handle h fails with
\* "Node not found" and calls no factory.
C2_RemovedNodeIsUnknown ==
    (/\ last.op = "get_connection"
     /\ last.handle \in DOMAIN dedicated_sets
     /\ last.node \in removedNodes)
    => (last.res = "Node not found" /\ ~last.factoryCalled)

\* C3: a successful get_connection never returns a connection that
\* mark_connection_unhealthy has marked, and the connection it returns is the
\* healthy entry of (handle, node) afterwards.
C3_MarkedNeverReturned ==
    (last.op = "get_connection" /\ last.res = "ok")
    => /\ last.conn \notin marked
       /\ last.handle \in DOMAIN dedicated_sets
       /\ last.node \in DOMAIN dedicated_sets[last.handle]
       /\ dedicated_sets[last.handle][last.node] =
             ManagedConnection_new(last.conn, last.node)
       /\ last.replaced # 0 => last.conn # last.replaced

\* a get_connection has replaced an entry that mark_connection_unhealthy marked
C3_Witness ==
    /\ last.op = "get_connection" /\ last.res = "ok"
    /\ "marked" \in last.stale
    /\ last.conn # last.replaced

\* C4: a successful get_connection never returns a connection to a node that
\* existed, held or idle, when handle_failover was called for that node.
C4_FailoverLinearizable ==
    (last.op = "get_connection" /\ last.res = "ok")
    => last.conn \notin failedOver

\* after a failover of its node, a handle's entry has been replaced by a
\* connection that the factory opened in that call
C4_Witness ==
    /\ last.op = "get_connection" /\ last.res = "ok"
    /\ "failedOver" \in last.stale
    /\ last.factoryCalled
    /\ last.conn = opened

\* C5: get_connection with a handle this pool never returned or that has been
\* released fails with "Invalid handle", calls no factory and changes nothing
\* in the pool; a released handle never is in the table again.
C5_InvalidHandle ==
    [][/\ \A h \in released : h \notin DOMAIN dedicated_sets'
       /\ \A h \in HandleIds, n \in Nodes, f \in {"ok", "err", "cancel"} :
            (get_connection(h, n, f) /\ (issued[h] = 0 \/ h \in released))
            => /\ last'.res = "Invalid handle"
               /\ ~last'.factoryCalled
               /\ UNCHANGED poolVars]_vars

\* get_connection has failed for a released handle while another handle holds
\* a connection
C5_Witness ==
    /\ last.op = "get_connection" /\ last.res = "Invalid handle"
    /\ last.handle \in released
    /\ \E h \in DOMAIN dedicated_sets : DOMAIN dedicated_sets[h] # {}

\* C6: no handle is returned twice by acquire_dedicated, and every handle in
\* the table has been returned by acquire_dedicated and not been released.
C6_HandlesUnique ==
    /\ \A h \in DOMAIN issued : issued[h] <= 1
    /\ DOMAIN dedicated_sets \subseteq {h \in DOMAIN issued : issued[h] = 1} \ released

\* a handle has been returned out of the order of the counter (two calls ran
\* concurrently) while an earlier handle has been released
C6_Witness ==
    /\ last.op = "acquire_dedicated"
    /\ \E h \in HandleIds : h > last.handle /\ issued[h] = 1 /\ h \in released

\* C7: release_dedicated(h) of a live handle removes h from the table, appends
\* to each existing free list exactly the healthy connection h held for that
\* node and nothing else; the other connections of h are in no free list.
C7_ReleaseRoutesByHealth ==
    [][\A h \in DOMAIN dedicated_sets :
          release_dedicated(h) =>
            /\ h \notin DOMAIN dedicated_sets'
            /\ DOMAIN pools' = DOMAIN pools
            /\ \A n \in DOMAIN pools :
                 pools'[n].available =
                    IF n \in DOMAIN dedicated_sets[h] /\ dedicated_sets[h][n].is_healthy
                    THEN Append(pools[n].available, dedicated_sets[h][n])
                    ELSE pools[n].available
            /\ \A n \in DOMAIN dedicated_sets[h] :
                 (~dedicated_sets[h][n].is_healthy \/ n \notin DOMAIN pools)
                 => dedicated_sets[h][n].conn \notin LiveConns']_vars

\* a release has left one connection of the handle in a free list and dropped
\* an unhealthy one
C7_Witness ==
    /\ last.op = "release_dedicated"
    /\ last.handle \in released
    /\ DOMAIN dedicated_sets = {}
    /\ opened = 2
    /\ Cardinality(LiveConns) = 1
    /\ \E n \in DOMAIN pools : Len(pools[n].available) = 1

(***************************************************************************)
(* Properties of the script cache                                          *)
(***************************************************************************)
BodyOf(d) == CHOOSE b \in Bodies : Sha1(b) = d

\* C8: an entry for digest d exists iff more add_script calls were made for
\* its body than remove_script(d) calls while it existed; its count is that
\* difference and positive, and get_script(d) returns the body exactly then.
C8_RefCount ==
    \A d \in Digests :
        /\ d \in DOMAIN CONTAINER <=> adds[d] - removes[d] > 0
        /\ d \in DOMAIN CONTAINER =>
             /\ CONTAINER[d].ref_count > 0
             /\ CONTAINER[d].ref_count = adds[d] - removes[d]
             /\ CONTAINER[d].code = BodyOf(d)
        /\ GetFrom(CONTAINER, d) =
             IF adds[d] - removes[d] > 0 THEN BodyOf(d) ELSE "None"
        /\ (scriptLast.op = "get_script" /\ scriptLast.hash = d) =>
             scriptLast.res = IF adds[d] - removes[d] > 0 THEN BodyOf(d) ELSE "None"

\* two adds and two removes of one body: the second remove has deleted the
\* entry
C8_Witness ==
    \E d \in Digests :
        /\ adds[d] = 2 /\ removes[d] = 2
        /\ d \notin DOMAIN CONTAINER
        /\ scriptLast = ScriptCall("remove_script", d, "-")

\* C9: after add_script(s) and the next remove_script(Sha1(s)), with only
\* calls on other digests in between, the cache is the one those other calls
\* alone produce from the cache before the add: the cache before the add when
\* there were none.
C9_AddRemoveRestores ==
    probe.phase = "removed" => CONTAINER = probe.shadow

\* the pair has run on a digest that had an entry, with a call on another
\* digest in between
C9_Witness ==
    /\ probe.phase = "removed"
    /\ probe.interleaved
    /\ probe.hash \in DOMAIN CONTAINER
    /\ \E d \in DOMAIN CONTAINER : d # probe.hash

C11_InsertNeverReturnsLiveToken ==
    [][\A c \in Cursors :
          insert_cluster_scan_cursor(c) =>
             /\ scanLast'.id \notin DOMAIN SCAN
             /\ \A t \in DOMAIN SCAN : SCAN'[t] = SCAN[t]]_vars

(***************************************************************************)
(* Further properties of the connection pool                               *)
(***************************************************************************)
\* the handles that hold a connection to node n
HoldersOfNode(n) ==
    {h \in DOMAIN dedicated_sets : n \in DOMAIN dedicated_sets[h]}

\* C13: for every node with a pool, in_use is the number of connections to
\* that node held in the table.
C13_InUseCountsHeld ==
    \A n \in DOMAIN pools : pools[n].in_use = Cardinality(HoldersOfNode(n))

\* C14: a get_connection whose factory call fails or is cancelled installs
\* nothing in the table and leaves the in-use count of the node's pool as it
\* was (0 when the call created the pool).
C14_FailedGetCountsNothing ==
    [][\A h \in HandleIds, n \in Nodes, f \in {"err", "cancel"} :
          (get_connection(h, n, f) /\ last'.factoryCalled) =>
             /\ dedicated_sets' = dedicated_sets
             /\ pools'[n].in_use = PoolEntry(n).in_use]_vars

\* C15: every connection in a free list is healthy.
C15_FreeListHealthy ==
    \A n \in DOMAIN pools :
        \A i \in DOMAIN pools[n].available : pools[n].available[i].is_healthy

\* a free list holds a connection of a node for which a handle holds an
\* unhealthy one, after a release
C15_Witness ==
    /\ last.op = "release_dedicated"
    /\ \E n \in DOMAIN pools :
          /\ pools[n].available # <<>>
          /\ \E h \in HoldersOfNode(n) : ~dedicated_sets[h][n].is_healthy

\* the health flags under which connection c is stored (empty: c is nowhere)
HealthOf(c) ==
    {dedicated_sets[hn[1]][hn[2]].is_healthy : hn \in Holders(c)} \cup
    {pools[ni[1]].available[ni[2]].is_healthy : ni \in IdleSlots(c)}

\* C17: a connection is healthy when the factory has just produced it, a
\* connection that is unhealthy is not healthy one step later, and a dropped
\* connection does not come back.
C17_HealthMonotone ==
    [][\A c \in ConnIds :
          /\ c > opened => FALSE \notin HealthOf(c)'
          /\ FALSE \in HealthOf(c) => TRUE \notin HealthOf(c)'
          /\ (c <= opened /\ HealthOf(c) = {}) => HealthOf(c)' = {}]_vars

\* a connection that a failover made unhealthy has been marked again by
\* mark_connection_unhealthy and is still unhealthy
C17_Witness ==
    /\ last.op = "mark_connection_unhealthy"
    /\ last.handle \in DOMAIN dedicated_sets
    /\ last.node \in DOMAIN dedicated_sets[last.handle]
    /\ ~dedicated_sets[last.handle][last.node].is_healthy
    /\ dedicated_sets[last.handle][last.node].conn \in failedOver

C19_TopologyFrame ==
    [][\A a \in SUBSET Nodes :
          handle_topology_change(a) =>
             /\ DOMAIN dedicated_sets' = DOMAIN dedicated_sets
             /\ \A h \in DOMAIN dedicated_sets :
                  /\ DOMAIN dedicated_sets'[h] = DOMAIN dedicated_sets[h] \cap a
                  /\ \A m \in DOMAIN dedicated_sets[h] \cap a :
                        dedicated_sets'[h][m] = dedicated_sets[h][m]
             /\ DOMAIN pools' = DOMAIN pools \cap a
             /\ \A m \in DOMAIN pools \cap a : pools'[m] = pools[m]]_vars

\* a topology change has dropped one of two connections and kept the other,
\* healthy, with its handle
C19_Witness ==
    /\ last.op = "handle_topology_change"
    /\ opened = 2
    /\ Cardinality(LiveConns) = 1
    /\ \E h \in DOMAIN dedicated_sets, n \in Nodes :
          /\ n \in DOMAIN dedicated_sets[h]
          /\ dedicated_sets[h][n].is_healthy
          /\ n \in DOMAIN pools

\* the position of the last healthy connection of a free list (0: none)
LastHealthy(available) ==
    LET idx == {i \in DOMAIN available : available[i].is_healthy}
    IN IF idx = {} THEN 0 ELSE CHOOSE i \in idx : \A j \in idx : j <= i

\* C16: get_connection of a live handle returns the handle's healthy entry
\* for the node when there is one, calling no factory and changing neither
\* the table nor any pool; otherwise, for a registered node, it takes the
\* last (most recently released) healthy connection of the node's free list
\* without calling the factory, and calls the factory only when the free list
\* holds no healthy connection.
C16_ReuseBeforeOpen ==
    [][\A h \in DOMAIN dedicated_sets, n \in Nodes, f \in {"ok", "err", "cancel"} :
          get_connection(h, n, f) =>
             LET available == PoolEntry(n).available
                 top == LastHealthy(available)
             IN IF n \in DOMAIN dedicated_sets[h] /\ dedicated_sets[h][n].is_healthy
                THEN /\ last'.res = "ok"
                     /\ last'.conn = dedicated_sets[h][n].conn
                     /\ ~last'.factoryCalled
                     /\ UNCHANGED <<dedicated_sets, pools, opened>>
                ELSE n \in clients =>
                     IF top # 0
                     THEN /\ last'.res = "ok"
                          /\ last'.conn = available[top].conn
                          /\ ~last'.factoryCalled
                          /\ opened' = opened
                          /\ pools'[n].available = SubSeq(available, 1, top - 1)
                          /\ dedicated_sets'[h][n] = available[top]
                     ELSE /\ last'.factoryCalled
                          /\ f = "ok" => /\ last'.conn = opened + 1
                                         /\ opened' = opened + 1]_vars

\* get_connection has taken a connection from a free list of two or more
C16_Witness ==
    /\ last.op = "get_connection" /\ last.res = "ok"
    /\ last.popped >= 2
    /\ ~last.factoryCalled

(***************************************************************************)
(* Properties of send_command_dedicated                                    *)
(***************************************************************************)
ConnectionClass == {"IoError", "ConnectionRefused", "Timeout"}

\* what holds of a call at every moment
CmdShape(c) ==
    /\ c.sent <= 2 /\ c.gets <= 2 /\ c.marks <= 1
    /\ c.marks = 1 => c.sent >= 1 /\ c.err1 \in ConnectionClass
    /\ c.gets = 2 => c.marks = 1
    /\ c.sent = 2 => c.gets = 2 /\ c.second # 0
    /\ c.second # 0 => c.second # c.first
    /\ c.pc = "done" =>
          \/ c.sent = 0 /\ c.res \notin ErrorKinds \cup {"Ok", "-"}
          \/ c.sent = 1 /\ c.marks = 0 /\ c.res = "Ok" /\ c.err1 = "-"
          \/ c.sent = 1 /\ c.marks = 0 /\ c.res = c.err1
                        /\ c.err1 \in ErrorKinds \ ConnectionClass
          \/ c.sent = 1 /\ c.gets = 2 /\ c.second = 0
                        /\ c.res \notin ErrorKinds \cup {"Ok", "-"}
          \/ c.sent = 2 /\ c.res \in ErrorKinds \cup {"Ok"}

\* C12: send_command_dedicated sends the command at most twice; only a first
\* failure of connection class leads to mark_connection_unhealthy for the
\* call's (handle, node) and to one retry, on the connection a new
\* get_connection returned, which is not the connection of the first attempt;
\* a second failure, a failure of another class and a failure of
\* get_connection end the call with that error.
C12_RetryOnce ==
    [][/\ CmdShape(cmd')
       /\ cmd'.marks > cmd.marks =>
             /\ last'.op = "mark_connection_unhealthy"
             /\ last'.handle = cmd.handle /\ last'.node = cmd.node
       /\ cmd'.second # cmd.second /\ cmd'.second # 0 =>
             /\ last'.op = "get_connection" /\ last'.res = "ok"
             /\ last'.handle = cmd.handle /\ last'.node = cmd.node
             /\ cmd'.second = last'.conn
             /\ cmd'.handle \in DOMAIN dedicated_sets'
             /\ dedicated_sets'[cmd'.handle][cmd'.node].conn = cmd'.second
       /\ cmd.pc = "done" => cmd' = cmd]_vars

\* a call has failed twice with connection errors on two connections
C12_Witness ==
    /\ cmd.pc = "done" /\ cmd.sent = 2
    /\ cmd.res \in ConnectionClass
    /\ cmd.first # 0 /\ cmd.second # 0

(***************************************************************************)
(* Properties of concurrent get_connection calls                           *)
(***************************************************************************)
\* two finished calls for the same handle and node that were on their way
\* together, with no other operation on the entries in between
Overlapped(t, u) ==
    /\ t # u
    /\ tasks[t].pc = "done" /\ tasks[u].pc = "done"
    /\ tasks[t].handle = tasks[u].handle /\ tasks[t].node = tasks[u].node
    /\ u \in tasks[t].with

\* C20: concurrent get_connection calls for the same live handle and node
\* are serialized: at most one call is past dedicated_sets.write() at a
\* time, at most one of the calls obtains a connection (by a successful
\* factory call or a free-list pop), and the calls that succeed return the
\* same connection, which is the one in the handle's node map.
C20_DuplicateOpensSerialized ==
    /\ Cardinality({t \in Tasks :
           tasks[t].pc \in {"wait_clients", "wait_pools", "factory"}}) <= 1
    /\ \A t \in Tasks, u \in Tasks :
          Overlapped(t, u) =>
             /\ ~(tasks[t].obtained /\ tasks[u].obtained)
             /\ tasks[t].res = "ok" /\ tasks[u].res = "ok" =>
                   tasks[t].conn = tasks[u].conn

\* one call waited for the lock while the other one opened the connection
\* that both returned
C20_Witness ==
    \E t \in Tasks, u \in Tasks :
       /\ Overlapped(t, u)
       /\ tasks[t].res = "ok" /\ tasks[u].res = "ok"
       /\ tasks[t].obtained /\ ~tasks[u].obtained
       /\ tasks[t].conn = tasks[u].conn
       /\ tasks[t].handle \in DOMAIN dedicated_sets
       /\ tasks[t].node \in DOMAIN dedicated_sets[tasks[t].handle]
       /\ dedicated_sets[tasks[t].handle][tasks[t].node].conn = tasks[t].conn

(***************************************************************************)
(* Properties of release_dedicated                                         *)
(***************************************************************************)
\* C21: release_dedicated of a handle that is not in the dedicated-set table
\* (unknown to this pool, or released before) leaves the table, every free
\* list and every in-use count as they are and returns normally.
C21_ReleaseIdempotent ==
    [][\A h \in HandleIds :
          release_dedicated(h) /\ h \notin DOMAIN dedicated_sets =>
             /\ UNCHANGED <<dedicated_sets, pools, clients, opened>>
             /\ last'.op = "release_dedicated" /\ last'.res = "ok"]_vars

\* a handle that never was in the table has been released while connections
\* are in use and idle
C21_Witness ==
    /\ last.op = "release_dedicated" /\ last.res = "ok"
    /\ last.handle \in foreign \/ issued[last.handle] = 0
    /\ \E n \in DOMAIN pools : pools[n].in_use > 0
    /\ \E h \in DOMAIN dedicated_sets : dedicated_sets[h] # <<>>

(***************************************************************************)
(* Properties of ChannelRwLock                                             *)
(***************************************************************************)
\* the guard of t exists: made by the manager and not dropped yet
GuardLive(t) == chTasks[t].pc \in {"sent", "holding"}

\* C22: a live WriteGuard of a ChannelRwLock is the only live guard of that
\* lock: no other WriteGuard and no ReadGuard is live together with it.
C22_WriterExcludesAll ==
    \A t \in ChTasks, u \in ChTasks :
       t # u /\ GuardLive(t) /\ chTasks[t].kind = "Write" => ~GuardLive(u)

(***************************************************************************)
(* Properties of HybridRwLock                                              *)
(***************************************************************************)
\* C23: a thread inside blocking_read or blocking_write eventually returns
\* with its guard.
C23_BlockingReturns ==
    \A t \in HyTasks :
       (hyTasks[t] \in {"spin_R", "spin_W"}) ~> (hyTasks[t] \in {"reading", "writing"})

(***************************************************************************)
(* Properties of the pool's locking                                        *)
(***************************************************************************)
\* whoever holds clients or pools holds dedicated_sets
LockOrderKept ==
    /\ locks.pools # 0 => locks.sets = locks.pools
    /\ locks.clients # {} => locks.clients = {locks.sets}

\* the lock t waits for is held by u
WaitsFor(t, u) ==
    /\ u # t
    /\ \/ /\ tasks[t].pc = "wait_sets" \/ (ops[t].op # "-" /\ ops[t].held = 0)
          /\ locks.sets = u \/ locks.pools = u \/ u \in locks.clients
       \/ /\ tasks[t].pc = "wait_pools" \/ ops[t].held = 1
          /\ locks.sets = u \/ locks.pools = u

\* C24: the pool's locks are always taken in the order dedicated_sets,
\* clients, pools, and no call of a pool operation is ever stuck: whatever
\* the other tasks call at the same time, a call that has not returned can
\* take its next step, or waits for a lock whose holder can take its next
\* step (and so, the locks serving their waiters in turn and every factory
\* call returning, comes to its end).
C24_NoDeadlock ==
    /\ LockOrderKept
    /\ \A t \in Tasks :
          Busy(t) =>
             \/ ENABLED Proceed(t)
             \/ \E u \in Tasks : WaitsFor(t, u) /\ ENABLED Proceed(u)

\* under SpecOrderFair every call comes to its end
OperationsComplete == \A t \in Tasks : Busy(t) ~> ~Busy(t)

\* a get_connection waits for its factory with all three guards while
\* another task's operation waits for dedicated_sets.write()
C24_Witness ==
    \E t \in Tasks, u \in Tasks :
       /\ tasks[t].pc = "factory"
       /\ locks.sets = t /\ locks.pools = t /\ locks.clients = {t}
       /\ ops[u].op \in {"handle_failover", "handle_topology_change",
                         "release_dedicated"}
       /\ ops[u].held = 0

====
